---- MODULE Spec2Model ----
(***************************************************************************)
(* PhotonMapping (src/include/integrator.h): the photon tracing loop of    *)
(* build(), the sequential merge of the per-walk slots into the photon map *)
(* and the integrate() stub, as a state machine.                           *)
(*                                                                         *)
(* Floats are the values 0, 2^e, +Inf and NaN, with IEEE arithmetic on     *)
(* them (x/0 = Inf, 0/0 = NaN, Inf*0 = NaN, every comparison with NaN is   *)
(* false).  A Vec3 is a triple of floats.  The collaborators whose code is *)
(* not part of these files (Scene, Light, BxDF, Sampler, PhotonMap) are    *)
(* modelled at their interface: the values a scene can return are the sets *)
(* held in the variable scene.                                             *)
(*                                                                         *)
(* Primitive (src/include/primitive.h): the three members that take a     *)
(* direction into the local frame of a hit and back.  There a direction    *)
(* is a triple of integers and a frame is made of axis vectors, so that    *)
(* the transforms are exact.                                               *)
(***************************************************************************)
EXTENDS Integers, Sequences, FiniteSets, TLC

\* ------------------------------------------------------------------ bounds
MaxPhotons == 2
MaxDepthBound == 2
MaxBuilds == 2
MaxWalkDepth == 3
MaxCoord == 1

\* ------------------------------------------------------------------ floats
F0 == [c |-> "zero", e |-> 0]
FInf == [c |-> "inf", e |-> 0]
FNaN == [c |-> "nan", e |-> 0]
Pow(n) == [c |-> "pow", e |-> n]
F1 == Pow(0)
FHalf == Pow(-1)

\* 2^n as a float: exponents outside the float range overflow or underflow
Norm(n) == IF n > 127 THEN FInf ELSE IF n < -149 THEN F0 ELSE Pow(n)

FMul(a, b) ==
  IF a.c = "nan" \/ b.c = "nan" THEN FNaN
  ELSE IF a.c = "inf" THEN (IF b.c = "zero" THEN FNaN ELSE FInf)
  ELSE IF b.c = "inf" THEN (IF a.c = "zero" THEN FNaN ELSE FInf)
  ELSE IF a.c = "zero" \/ b.c = "zero" THEN F0
  ELSE Norm(a.e + b.e)

FDiv(a, b) ==
  IF a.c = "nan" \/ b.c = "nan" THEN FNaN
  ELSE IF a.c = "inf" THEN (IF b.c = "inf" THEN FNaN ELSE FInf)
  ELSE IF b.c = "inf" THEN F0
  ELSE IF b.c = "zero" THEN (IF a.c = "zero" THEN FNaN ELSE FInf)
  ELSE IF a.c = "zero" THEN F0
  ELSE Norm(a.e - b.e)

\* a < b
FLess(a, b) ==
  IF a.c = "nan" \/ b.c = "nan" THEN FALSE
  ELSE IF a.c = "inf" THEN FALSE
  ELSE IF b.c = "inf" THEN TRUE
  ELSE IF b.c = "zero" THEN FALSE
  ELSE IF a.c = "zero" THEN TRUE
  ELSE a.e < b.e

\* a >= b
FGeq(a, b) ==
  IF a.c = "nan" \/ b.c = "nan" THEN FALSE ELSE ~FLess(a, b)

\* std::max(a, b) is (a < b) ? b : a, std::min(a, b) is (b < a) ? b : a
FMax(a, b) == IF FLess(a, b) THEN b ELSE a
FMin(a, b) == IF FLess(b, a) THEN b ELSE a

Vec3(x) == <<x, x, x>>
VMulS(v, s) == [j \in 1..3 |-> FMul(v[j], s)]
VDivS(v, s) == [j \in 1..3 |-> FDiv(v[j], s)]
VMul(v, w) == [j \in 1..3 |-> FMul(v[j], w[j])]

\* a direction that is not negated
Neg_Same(d) == d

\* -ray.direction, directions being nonzero integers
Neg(d) == 0 - d

\* ------------------------------------------------------------------ scenes
\* What the collaborators reached through a scene can return.
CoarseScene(n) ==
  [nLights |-> n,
   Le |-> {Vec3(F1)},
   lightPdf |-> {F1},
   cosines |-> {F1},
   hits |-> BOOLEAN,
   types |-> {"DIFFUSE", "SPECULAR"},
   points |-> {1},
   dirs |-> {1},
   bsdf |-> {Vec3(FHalf)},
   bsdfPdf |-> {F1}]

Scenes == {CoarseScene(0), CoarseScene(1)}

\* A scene with one coloured light whose collaborators return every kind of
\* value their interfaces allow: a black or grey BSDF value, a zero or a
\* positive density, two points and two directions.
RichScene ==
  [nLights |-> 1,
   Le |-> {<<F1, FHalf, F0>>},
   lightPdf |-> {F1, F0},
   cosines |-> {F1},
   hits |-> BOOLEAN,
   types |-> {"DIFFUSE", "SPECULAR"},
   points |-> {1, 2},
   dirs |-> {1, 2},
   bsdf |-> {Vec3(FHalf), Vec3(F0)},
   bsdfPdf |-> {F1, F0}]

WalkScenes == {CoarseScene(0), RichScene}

\* ------------------------------------------------------------------ state
VARIABLES
  nPhotons, nDensityEstimation, maxDepth,  \* the instance's const fields
  photonMap,     \* the photon store: the photons it holds, its build() calls
  scene,         \* the scene build() is called with
  sampler,       \* the state of the one Sampler build() is called with
  pc,            \* where the thread calling build() is
  photons,       \* build()'s local vector of std::optional<Photon>
  walk,          \* the locals of iteration i of the parallel loop
  mergeIdx,      \* position of the range-for over photons
  added,         \* the arguments of the addPhoton calls of this execution
  buildCalls,    \* number of build() calls so far
  buildResult,   \* how the last build() call ended
  lastRet,       \* what the last integrate() call returned
  prim           \* the arguments, locals and result of a call on a Primitive

vars == <<nPhotons, nDensityEstimation, maxDepth, photonMap, scene, sampler,
          pc, photons, walk, mergeIdx, added, buildCalls, buildResult, lastRet,
          prim>>

\* what no member of PhotonMapping writes
config == <<nPhotons, nDensityEstimation, maxDepth, scene, prim>>

Photon(power, position, incomingDirection) ==
  [power |-> power, position |-> position,
   incomingDirection |-> incomingDirection]

Walks == DOMAIN walk

\* Ray(origin, direction)
Ray(origin, direction) == [origin |-> origin, direction |-> direction]

\* The locals of an iteration that has not started: k, throughput, ray and
\* what the last sampleBRDF returned (f, pdf_dir) with the cosine of line 95.
\* diffuse: a hit was on a DIFFUSE primitive.
NoWalk == [pc |-> "pending", k |-> 0, throughput |-> Vec3(F0),
           ray |-> Ray(0, 0), f |-> Vec3(F0), cos |-> F0, pdf_dir |-> F0,
           diffuse |-> FALSE]

\* ------------------------------------------------------------------ frames
dot(a, b) == a[1] * b[1] + a[2] * b[2] + a[3] * b[3]

\* the components of v along the axes lx, ly, lz
worldToLocal(v, lx, ly, lz) == <<dot(v, lx), dot(v, ly), dot(v, lz)>>

\* the direction with components v along the axes lx, ly, lz
localToWorld(v, lx, ly, lz) ==
  [j \in 1..3 |-> v[1] * lx[j] + v[2] * ly[j] + v[3] * lz[j]]

Directions ==
  {<<x, y, z>> : x \in -MaxCoord..MaxCoord, y \in -MaxCoord..MaxCoord,
                 z \in -MaxCoord..MaxCoord}

Axes == {<<1, 0, 0>>, <<-1, 0, 0>>, <<0, 1, 0>>, <<0, -1, 0>>,
         <<0, 0, 1>>, <<0, 0, -1>>}

\* the frames of a SurfaceInfo: three orthogonal unit vectors
SurfaceInfos ==
  {s \in [dpdu : Axes, normal : Axes, dpdv : Axes] :
     /\ dot(s.dpdu, s.normal) = 0
     /\ dot(s.normal, s.dpdv) = 0
     /\ dot(s.dpdv, s.dpdu) = 0}

\* no call on a Primitive yet
NoCall == [call |-> "none", wo |-> <<0, 0, 0>>,
           surfInfo |-> [dpdu |-> <<1, 0, 0>>, normal |-> <<0, 1, 0>>,
                         dpdv |-> <<0, 0, 1>>],
           wo_l |-> <<0, 0, 0>>, wi_l |-> <<>>, wi |-> <<>>]

\* the sampler: a generator with one bit of state
SamplerStates == {0, 1}

\* no vector: build() is not running
NoSlots == [i \in {} |-> <<>>]

Init ==
  /\ nPhotons \in -1..MaxPhotons
  \* nDensityEstimation is read nowhere: both values with the small budgets
  /\ nDensityEstimation \in (IF nPhotons <= 1 THEN 0..1 ELSE {1})
  /\ maxDepth \in 0..MaxDepthBound
  /\ scene \in Scenes
  /\ sampler \in SamplerStates
  /\ photonMap = [size |-> 0, builds |-> 0]
  /\ pc = "idle"
  /\ photons = NoSlots
  /\ walk = NoSlots
  /\ mergeIdx = 0
  /\ added = <<>>
  /\ buildCalls = 0
  /\ buildResult = "none"
  /\ lastRet = <<>>
  /\ prim = NoCall

\* one walk (nPhotons = 1, no other iteration beside it) over the values of
\* a rich scene
WalkInit ==
  /\ nPhotons = 1
  /\ nDensityEstimation = 1
  /\ maxDepth \in 0..MaxWalkDepth
  /\ scene \in WalkScenes
  /\ sampler \in SamplerStates
  /\ photonMap = [size |-> 0, builds |-> 0]
  /\ pc = "idle"
  /\ photons = NoSlots
  /\ walk = NoSlots
  /\ mergeIdx = 0
  /\ added = <<>>
  /\ buildCalls = 0
  /\ buildResult = "none"
  /\ lastRet = <<>>
  /\ prim = NoCall

\* a Primitive, an outgoing direction and the frame of a hit, before a call
PrimInit ==
  /\ nPhotons = 0
  /\ nDensityEstimation = 1
  /\ maxDepth = 0
  /\ scene = CoarseScene(0)
  /\ sampler = 0
  /\ photonMap = [size |-> 0, builds |-> 0]
  /\ pc = "idle"
  /\ photons = NoSlots
  /\ walk = NoSlots
  /\ mergeIdx = 0
  /\ added = <<>>
  /\ buildCalls = 0
  /\ buildResult = "none"
  /\ lastRet = <<>>
  /\ \E wo \in Directions, s \in SurfaceInfos :
       prim = [NoCall EXCEPT !.wo = wo, !.surfInfo = s]

\* ------------------------------------------------------------------ sampler
UValues == {F0, FHalf}

\* the uniform sample a sampler in state s returns
Rand(s) == IF s = 0 THEN FHalf ELSE F0

\* the sampler's state after a draw in state s
After(s) == 1 - s

\* another iteration of the parallel loop is running beside iteration i
Racing(i) == \E j \in Walks : j # i /\ walk[j].pc = "loop"

\* One getNext1D() by iteration i on the shared sampler: the sample and the
\* sampler's next state.  Unsynchronised beside another iteration, the
\* sample is any value and the advance may be lost.
Draw(i) ==
  IF Racing(i)
  THEN {[u |-> v, next |-> n] : v \in UValues, n \in {sampler, After(sampler)}}
  ELSE {[u |-> Rand(sampler), next |-> After(sampler)]}

\* the sampler's state after iteration i passed it, from state s, to n
\* collaborator calls, each of which draws once
RECURSIVE AfterDraws(_, _)
AfterDraws(s, n) == IF n = 0 THEN s ELSE AfterDraws(After(s), n - 1)

Advance(i, s, n) ==
  IF Racing(i)
  THEN {AfterDraws(s, d) : d \in 0..n}
  ELSE {AfterDraws(s, n)}

\* ------------------------------------------------------------------ build()
\* a deposit at every hit, whatever the surface
Deposits_AnyHit(type) == type \in {"DIFFUSE", "SPECULAR"}

\* line 71: the hit deposits a photon
Deposits(type) == type = "DIFFUSE"

\* one slot for all the iterations
Slot_Shared(i) == 0

\* line 72: the element of photons iteration i assigns
Slot(i) == i

\* a loop test that is off by one
LoopContinues_OffByOne(k) == k <= maxDepth

\* line 66: the loop test of the bounce loop
LoopContinues(k) == k < maxDepth

\* a roulette from the first bounce on
RouletteApplies_EveryBounce(k) == k >= 0

\* line 77: the roulette is applied at this bounce
RouletteApplies(k) == k > 0

\* lines 78-80: the survival probability of the roulette
RouletteProb(t) == FMin(FMax(t[1], FMax(t[2], t[3])), F1)

\* lines 59-61: the throughput a walk starts with
EmitThroughput(le, choosePdf, posPdf, cosv) ==
  VMulS(VDivS(le, FMul(choosePdf, posPdf)), cosv)

\* lines 94-95: throughput *= f * |cos| / pdf_dir
BounceThroughput(t, f, cosv, pdf) == VMul(t, VDivS(VMulS(f, cosv), pdf))

\* the iteration is over: its locals are gone
Finish(w) == [NoWalk EXCEPT !.pc = "done", !.diffuse = w.diffuse]

\* line 37: the vector of slots; a negative size makes the constructor throw
Build_Enter ==
  /\ pc = "idle"
  /\ buildCalls < MaxBuilds
  /\ buildCalls' = buildCalls + 1
  /\ IF nPhotons < 0
     THEN /\ buildResult' = "length_error"
          /\ UNCHANGED <<pc, photons, walk>>
     ELSE /\ buildResult' = "running"
          /\ pc' = "tracing"
          /\ photons' = [i \in 0..(nPhotons - 1) |-> <<>>]
          /\ walk' = [i \in 0..(nPhotons - 1) |-> NoWalk]
  /\ UNCHANGED <<config, photonMap, sampler, mergeIdx, added, lastRet>>

\* lines 43-61 and the first loop test: iteration i samples its light, a
\* point and a direction on it and spawns the ray.  With no light in the
\* scene sampleLight has nothing to return: the process dies, or the walk
\* goes on with whatever came back.
Walk_Emit(i) ==
  /\ pc = "tracing"
  /\ walk[i].pc = "pending"
  /\ \/ /\ scene.nLights = 0
        /\ pc' = "crashed"
        /\ walk' = [walk EXCEPT ![i] = [NoWalk EXCEPT !.pc = "died"]]
        /\ UNCHANGED sampler
     \/ /\ \E le \in scene.Le, choosePdf \in scene.lightPdf,
              posPdf \in scene.lightPdf, cosv \in scene.cosines,
              pos \in scene.points, dir \in scene.dirs,
              s \in Advance(i, sampler, 3) :
             /\ sampler' = s
             /\ walk' = [walk EXCEPT ![i] =
                  IF LoopContinues(0)
                  THEN [NoWalk EXCEPT
                          !.pc = "loop",
                          !.throughput =
                            EmitThroughput(le, choosePdf, posPdf, cosv),
                          !.ray = Ray(pos, dir)]
                  ELSE Finish(NoWalk)]
        /\ UNCHANGED pc
  /\ UNCHANGED <<config, photonMap, photons, mergeIdx, added, buildCalls,
                 buildResult, lastRet>>

\* lines 87-96 and the next loop test
Scatter(i, w, t, s, pos, f, cosv, pdf, dir) ==
  \E s2 \in Advance(i, s, 1) :
    /\ sampler' = s2
    /\ walk' = [walk EXCEPT ![i] =
         IF LoopContinues(w.k + 1)
         THEN [w EXCEPT
                 !.k = w.k + 1,
                 !.throughput = BounceThroughput(t, f, cosv, pdf),
                 !.ray = Ray(pos, dir),
                 !.f = f, !.cos = cosv, !.pdf_dir = pdf]
         ELSE Finish(w)]

\* lines 66-101: one iteration of the bounce loop of iteration i
Walk_Bounce(i) ==
  /\ pc = "tracing"
  /\ walk[i].pc = "loop"
  /\ \E hit \in scene.hits :
       IF ~hit
       THEN /\ walk' = [walk EXCEPT ![i] = Finish(walk[i])]
            /\ UNCHANGED <<photons, sampler>>
       ELSE \E type \in scene.types, pos \in scene.points,
               f \in scene.bsdf, cosv \in scene.cosines,
               pdf \in scene.bsdfPdf, dir \in scene.dirs :
              LET w0 == walk[i]
                  w == [w0 EXCEPT !.diffuse = w0.diffuse \/ type = "DIFFUSE"]
                  p == RouletteProb(w.throughput)
              IN  /\ photons' = [photons EXCEPT ![Slot(i)] =
                       IF Deposits(type)
                       THEN <<Photon(w.throughput, pos,
                                     Neg(w.ray.direction))>>
                       ELSE photons[Slot(i)]]
                  /\ IF RouletteApplies(w.k)
                     THEN \E dr \in Draw(i) :
                            IF FGeq(dr.u, p)
                            THEN /\ sampler' = dr.next
                                 /\ walk' = [walk EXCEPT ![i] = Finish(w)]
                            ELSE Scatter(i, w, VDivS(w.throughput, p),
                                         dr.next, pos, f, cosv, pdf, dir)
                     ELSE Scatter(i, w, w.throughput, sampler, pos, f,
                                  cosv, pdf, dir)
  /\ UNCHANGED <<config, photonMap, pc, mergeIdx, added, buildCalls,
                 buildResult, lastRet>>

\* a parallel loop the calling thread does not wait for
ParallelLoopDone_NoWait == \A i \in Walks : walk[i].pc # "pending"

\* line 102: the end of the parallel region, which every iteration reached
ParallelLoopDone == \A i \in Walks : walk[i].pc = "done"

Parallel_Join ==
  /\ pc = "tracing"
  /\ ParallelLoopDone
  /\ pc' = "merging"
  /\ mergeIdx' = 0
  /\ UNCHANGED <<config, photonMap, sampler, photons, walk, added,
                 buildCalls, buildResult, lastRet>>

\* line 106: the slot holds a photon
HasValue(p) == p # <<>>

\* PhotonMap::addPhoton: the store holds one photon more
AddPhoton(m, p) == [m EXCEPT !.size = m.size + 1]

\* a merge loop that walks the vector from its end
MergeSlot_Descending(n) == nPhotons - 1 - n

\* line 105: the element the n-th iteration of the range-for visits
MergeSlot(n) == n

\* lines 105-109: one iteration of the merge loop
Merge_Step ==
  /\ pc = "merging"
  /\ mergeIdx < nPhotons
  /\ LET p == photons[MergeSlot(mergeIdx)]
     IN  IF HasValue(p)
         THEN /\ photonMap' = AddPhoton(photonMap, p[1])
              /\ added' = Append(added, p[1])
         ELSE UNCHANGED <<photonMap, added>>
  /\ mergeIdx' = mergeIdx + 1
  /\ UNCHANGED <<config, sampler, pc, photons, walk, buildCalls,
                 buildResult, lastRet>>

\* a merge loop that leaves out the last slot
MergeDone_SkipLast == mergeIdx >= nPhotons - 1

\* line 105: the merge loop is over
MergeDone == mergeIdx = nPhotons

\* line 113: photonMap.build()
PhotonMap_Build ==
  /\ pc = "merging"
  /\ MergeDone
  /\ photonMap' = [photonMap EXCEPT !.builds = photonMap.builds + 1]
  /\ pc' = "built"
  /\ UNCHANGED <<config, sampler, photons, walk, mergeIdx, added,
                 buildCalls, buildResult, lastRet>>

\* line 114: build() returns; its locals are gone
Build_Return ==
  /\ pc = "built"
  /\ pc' = "idle"
  /\ buildResult' = "returned"
  /\ photons' = NoSlots
  /\ walk' = NoSlots
  /\ mergeIdx' = 0
  /\ added' = <<>>
  /\ UNCHANGED <<config, photonMap, sampler, buildCalls, lastRet>>

\* ------------------------------------------------------------------ integrate()
\* an integrate that empties the store it reads
Integrate_ResetsStore ==
  /\ pc # "crashed"
  /\ lastRet' = <<Vec3(F0)>>
  /\ photonMap' = [size |-> 0, builds |-> 0]
  /\ UNCHANGED <<config, sampler, pc, photons, walk, mergeIdx, added,
                 buildCalls, buildResult>>

\* lines 116-120: the stub returns Vec3(0), whatever the state
Integrate ==
  /\ pc # "crashed"
  /\ lastRet' = <<Vec3(F0)>>
  /\ UNCHANGED <<config, photonMap, sampler, pc, photons, walk, mergeIdx,
                 added, buildCalls, buildResult>>

Next ==
  \/ Build_Enter
  \/ \E i \in Walks : Walk_Emit(i)
  \/ \E i \in Walks : Walk_Bounce(i)
  \/ Parallel_Join
  \/ Merge_Step
  \/ PhotonMap_Build
  \/ Build_Return
  \/ Integrate

Spec == Init /\ [][Next]_vars

WalkSpec == WalkInit /\ [][Next]_vars

\* a step of an execution of build: of an iteration of the parallel loop
\* or of the calling thread
BuildStep ==
  \/ \E i \in Walks : Walk_Emit(i) \/ Walk_Bounce(i)
  \/ Parallel_Join
  \/ Merge_Step
  \/ PhotonMap_Build

\* no step of the caller is required; an execution of build that can take
\* a step takes one
FairSpec == Spec /\ WF_vars(BuildStep)

\* ------------------------------------------------------------------ Primitive
\* a transform back with the normal as first axis
ToWorld_NormalFirst(v, surfInfo) ==
  localToWorld(v, surfInfo.normal, surfInfo.dpdu, surfInfo.dpdv)

\* primitive.h lines 33, 35, 44, 60: world to local transform
ToLocal(v, surfInfo) ==
  worldToLocal(v, surfInfo.dpdu, surfInfo.normal, surfInfo.dpdv)

\* primitive.h lines 51, 67: local to world transform
ToWorld(v, surfInfo) ==
  localToWorld(v, surfInfo.dpdu, surfInfo.normal, surfInfo.dpdv)

\* the local directions a BxDF can return for wo_l: wo_l itself, its mirror
\* image about the local normal, the local normal
LocalDirections(wo_l) == {wo_l, <<-wo_l[1], wo_l[2], -wo_l[3]>>, <<0, 1, 0>>}

\* the other variables, which no member of Primitive touches
others == <<nPhotons, nDensityEstimation, maxDepth, photonMap, scene, sampler,
            pc, photons, walk, mergeIdx, added, buildCalls, buildResult,
            lastRet>>

\* primitive.h lines 29-38
EvaluateBxDF ==
  /\ prim.call = "none"
  /\ \E wi \in {prim.wo, prim.surfInfo.normal} :
       prim' = [prim EXCEPT !.call = "evaluateBxDF",
                            !.wo_l = ToLocal(prim.wo, prim.surfInfo),
                            !.wi = <<wi>>,
                            !.wi_l = <<ToLocal(wi, prim.surfInfo)>>]
  /\ UNCHANGED others

\* primitive.h lines 40-54
SampleBxDF ==
  /\ prim.call = "none"
  /\ LET wo_l == ToLocal(prim.wo, prim.surfInfo)
     IN  \E wi_l \in LocalDirections(wo_l) :
           prim' = [prim EXCEPT !.call = "sampleBxDF",
                                !.wo_l = wo_l,
                                !.wi_l = <<wi_l>>,
                                !.wi = <<ToWorld(wi_l, prim.surfInfo)>>]
  /\ UNCHANGED others

\* primitive.h lines 56-72: every sampled direction is taken back to world
SampleAllBxDF ==
  /\ prim.call = "none"
  /\ LET wo_l == ToLocal(prim.wo, prim.surfInfo)
     IN  \E a, b \in LocalDirections(wo_l) :
           LET dir_pairs == <<a, b>>
           IN  prim' = [prim EXCEPT
                          !.call = "sampleAllBxDF",
                          !.wo_l = wo_l,
                          !.wi_l = dir_pairs,
                          !.wi = [n \in 1..Len(dir_pairs) |->
                                    ToWorld(dir_pairs[n], prim.surfInfo)]]
  /\ UNCHANGED others

PrimNext ==
  \/ EvaluateBxDF
  \/ SampleBxDF
  \/ SampleAllBxDF

PrimSpec == PrimInit /\ [][PrimNext]_vars

\* ------------------------------------------------------------------ claims
\* the slots that hold a photon
Deposited == {i \in DOMAIN photons : photons[i] # <<>>}

\* C1: when walk i has ended, slot photons[i] holds a photon if and only if
\* one of the walk's intersections was on a DIFFUSE primitive.
C1_DepositIffDiffuseHit ==
  \A i \in Walks :
    walk[i].pc = "done" => ((photons[i] # <<>>) <=> walk[i].diffuse)

C1_Witness ==
  \E i, j \in Walks :
    /\ walk[i].pc = "done" /\ walk[i].diffuse /\ photons[i] # <<>>
    /\ walk[j].pc = "done" /\ ~walk[j].diffuse /\ photons[j] = <<>>

\* C2: once a walk's slot holds a photon, no later bounce of the walk
\* changes the slot.
C2_SlotWrittenOnce ==
  [][\A i \in Walks :
       (pc = "tracing" /\ pc' = "tracing" /\ photons[i] # <<>>)
         => photons'[i] = photons[i]]_vars

\* the iterations that have passed the sampler to a sampling call
SamplerUsers == {i \in Walks : walk[i].pc # "pending"}

\* C3: no sampler is read or advanced by two different walks.
C3_OwnSamplerStream == Cardinality(SamplerUsers) <= 1

\* C4: integrate returns no radiance value before photonMap.build() has
\* completed.
C4_NoRadianceWhileUnbuilt == lastRet # <<>> => photonMap.builds > 0

\* C5: with no light in the scene no walk is started and the photon store
\* is neither filled nor built.
C5_NoLightNoWalk ==
  scene.nLights = 0 =>
    /\ \A i \in Walks : walk[i].pc = "pending"
    /\ photonMap = [size |-> 0, builds |-> 0]

\* C6: with nPhotons <= 0 or nDensityEstimation = 0 no walk runs, nothing is
\* added to the photon store and photonMap.build() is not called.
C6_BadBudgetNoWork ==
  (nPhotons <= 0 \/ nDensityEstimation = 0) =>
    /\ \A i \in Walks : walk[i].pc = "pending"
    /\ photonMap = [size |-> 0, builds |-> 0]

\* C7: no photon is added to the photon store once the store's build step
\* has completed.
C7_NoAddAfterBuilt ==
  [][photonMap.builds > 0 => photonMap'.size = photonMap.size]_vars

\* C8: photonMap.build() runs once in an execution of build, when every
\* walk has finished and every slot that holds a photon has been added;
\* after it build only returns.
C8_StoreBuiltOnceAfterAll ==
  [][/\ photonMap'.builds # photonMap.builds =>
          /\ photonMap'.builds = photonMap.builds + 1
          /\ pc = "merging" /\ pc' = "built"
          /\ \A i \in Walks : walk[i].pc = "done"
          /\ mergeIdx = nPhotons
          /\ Len(added) = Cardinality(Deposited)
     /\ pc = "built" => photonMap'.builds = photonMap.builds
     /\ (pc # "idle" /\ pc' = "idle") => pc = "built"]_vars

C8_Witness ==
  /\ pc = "built"
  /\ nPhotons >= 2
  /\ Deposited # {}
  /\ Len(added) = Cardinality(Deposited)

\* the number of addPhoton calls of this execution whose argument was v
TimesAdded(v) == Cardinality({j \in 1..Len(added) : added[j] = v})

\* C9: when the store has been built, the photons added in this execution
\* are the contents of the slots that hold one, each added once: as many
\* addPhoton calls as walks that deposited, at most nPhotons.
C9_AddedAreTheSlots ==
  pc = "built" =>
    /\ Len(added) = Cardinality(Deposited)
    /\ Len(added) <= nPhotons
    /\ \A i \in Deposited :
         TimesAdded(photons[i][1]) =
           Cardinality({j \in Deposited : photons[j] = photons[i]})
    /\ \A j \in 1..Len(added) : \E i \in Deposited : photons[i][1] = added[j]

C9_Witness ==
  /\ pc = "built"
  /\ Cardinality(Deposited) = 1
  /\ nPhotons >= 2
  /\ Len(added) = 1

\* C10: a walk makes at most maxDepth intersection queries, and an execution
\* of build in a scene with a light reaches the store's build step.
C10_WalksEndAndStoreIsBuilt ==
  /\ [](\A i \in Walks : walk[i].pc = "loop" => walk[i].k < maxDepth)
  /\ (pc = "tracing" /\ scene.nLights > 0) ~> (pc = "built")

C10_Witness ==
  /\ pc = "built"
  /\ scene.nLights > 0
  /\ nPhotons >= 2
  /\ maxDepth >= 2

\* C11: no walk goes on after a BxDF sample of density zero: a walk that is
\* in the bounce loop after a bounce did not get pdf_dir = 0 at that bounce
\* (its throughput was not divided by zero, its ray not advanced to the hit,
\* and no further intersection query awaits it).
C11_ZeroPdfEndsWalk ==
  \A i \in Walks :
    (walk[i].pc = "loop" /\ walk[i].k > 0) => walk[i].pdf_dir # F0

\* C12: the roulette is applied only at bounces k > 0.  A bounce 0 that goes
\* on drew no roulette sample (only sampleBRDF advanced the sampler) and its
\* throughput is not compensated; a walk that ends at bounce 0 after a draw
\* ended by the loop test.  At a hit of a bounce k > 0 one sample u is drawn:
\* the walk goes on only with u < p, p = min(max(throughput components), 1),
\* and then with the throughput divided by p before the BxDF update; it ends
\* with the one draw only when u >= p.
C12_RouletteFromSecondBounce ==
  [][\A i \in Walks :
       (pc = "tracing" /\ walk[i].pc = "loop" /\ walk'[i] # walk[i]) =>
         LET w == walk[i]
             w2 == walk'[i]
             t == w.throughput
             p == FMin(FMax(t[1], FMax(t[2], t[3])), F1)
             u == Rand(sampler)
             g == VDivS(VMulS(w2.f, w2.cos), w2.pdf_dir)
         IN  /\ (w.k = 0 /\ w2.pc = "loop") =>
                  /\ sampler' = After(sampler)
                  /\ w2.throughput = VMul(t, g)
             /\ (w.k = 0 /\ w2.pc = "done" /\ sampler' # sampler) =>
                  maxDepth = 1
             /\ (w.k > 0 /\ w2.pc = "loop") =>
                  /\ ~FGeq(u, p)
                  /\ sampler' = After(After(sampler))
                  /\ w2.throughput = VMul(VDivS(t, p), g)
             /\ (w.k > 0 /\ w2.pc = "done" /\ sampler' = After(sampler)) =>
                  FGeq(u, p)
             /\ (w.k > 0 /\ w2.pc = "done" /\ photons'[i] # photons[i]) =>
                  (FGeq(u, p) <=> sampler' = After(sampler))]_vars

\* a walk that survived the roulette of bounce 1 with p = 1/2: its
\* throughput (1/2, 1/4, 0) was compensated to (1, 1/2, 0)
C12_Witness ==
  \E i \in Walks :
    /\ walk[i].pc = "loop"
    /\ walk[i].k = 2
    /\ walk[i].throughput = <<FHalf, Pow(-2), F0>>
    /\ walk[i].f = Vec3(FHalf)
    /\ walk[i].pdf_dir = F1

\* a float that is neither NaN nor Inf; the floats of the model have no sign
\* other than plus
Finite(x) == x.c \in {"zero", "pow"}

\* C13: every component of a walk's throughput, and of the power of the
\* photon in its slot, is finite (and non-negative), whatever values >= 0
\* the collaborators return.
C13_ThroughputFinite ==
  \A i \in Walks :
    /\ walk[i].pc = "loop" => \A j \in 1..3 : Finite(walk[i].throughput[j])
    /\ photons[i] # <<>> => \A j \in 1..3 : Finite(photons[i][1].power[j])

\* C14: integrate does not change the instance or its photon store: a step
\* in which integrate returns, that is every step that is not a step of
\* build, leaves nPhotons, nDensityEstimation, maxDepth and the store as
\* they were, wherever build is at that moment.
C14_IntegrateChangesNothing ==
  [][(lastRet' # lastRet \/ UNCHANGED <<pc, walk, photons, mergeIdx,
                                        buildCalls>>)
       => UNCHANGED <<nPhotons, nDensityEstimation, maxDepth, photonMap>>]_vars

\* integrate has returned and the store holds photons and has been built
C14_Witness ==
  /\ lastRet = <<Vec3(F0)>>
  /\ photonMap.size > 0
  /\ photonMap.builds > 0

C16_PhotonOfTheHit ==
  [][\A i \in Walks :
       (pc = "tracing" /\ photons'[i] # photons[i]) =>
         /\ walk[i].pc = "loop"
         /\ Len(photons'[i]) = 1
         /\ photons'[i][1].power = walk[i].throughput
         /\ photons'[i][1].incomingDirection = 0 - walk[i].ray.direction
         /\ photons'[i][1].position \in scene.points
         /\ walk'[i].pc = "loop" =>
              photons'[i][1].position = walk'[i].ray.origin]_vars

\* the photon of a DIFFUSE hit at bounce 1, reached along direction 2 at
\* point 2 with throughput (1/2, 1/4, 0); the walk went on with a black
\* BSDF value
C16_Witness ==
  \E i \in Walks :
    /\ walk[i].pc = "loop"
    /\ walk[i].k = 2
    /\ walk[i].throughput = Vec3(F0)
    /\ walk[i].ray.origin = 2
    /\ photons[i] = <<Photon(<<FHalf, Pow(-2), F0>>, 2, -2)>>

\* C17: while the parallel loop runs, a slot changes only in a step of its
\* own walk, which changes no other slot, and no step touches the photon
\* store or the merge; the merge begins only when every walk has finished,
\* and while it reads the slots none of them changes.
C17_SlotsOwnedThenMerged ==
  [][/\ (pc = "tracing" /\ pc' = "tracing") =>
          /\ UNCHANGED <<photonMap, added, mergeIdx>>
          /\ \A i \in Walks :
               photons'[i] # photons[i] =>
                 /\ walk'[i] # walk[i]
                 /\ \A j \in Walks \ {i} :
                      walk'[j] = walk[j] /\ photons'[j] = photons[j]
     /\ pc' = "merging" =>
          /\ \A i \in Walks : walk[i].pc = "done" /\ walk'[i].pc = "done"
          /\ photons' = photons
     /\ photonMap' # photonMap => pc = "merging"]_vars

\* the parallel loop is running: one walk has ended with a photon in its
\* slot, another has put a photon in its own slot and is going on
C17_Witness ==
  /\ pc = "tracing"
  /\ \E i, j \in Walks :
       /\ i # j
       /\ walk[i].pc = "done" /\ photons[i] # <<>>
       /\ walk[j].pc = "loop" /\ photons[j] # <<>>

\* C18: the roulette compensation does not divide by a probability that is
\* not positive: a walk that goes on after a bounce k > 0, its throughput
\* divided by p = min(max(throughput components), 1), had p > 0.
C18_CompensationByPositive ==
  [][\A i \in Walks :
       (pc = "tracing" /\ walk[i].pc = "loop" /\ walk[i].k > 0
          /\ walk'[i].pc = "loop" /\ walk'[i].k = walk[i].k + 1) =>
         LET t == walk[i].throughput
             p == FMin(FMax(t[1], FMax(t[2], t[3])), F1)
         IN  FLess(F0, p)]_vars

\* the photons of the slots 0 .. n-1 that hold one, by ascending index
RECURSIVE InIndexOrder(_)
InIndexOrder(n) ==
  IF n = 0 THEN <<>>
  ELSE IF photons[n - 1] # <<>>
       THEN Append(InIndexOrder(n - 1), photons[n - 1][1])
       ELSE InIndexOrder(n - 1)

\* C19: the photons are added to the store in ascending walk-index order,
\* whatever the order in which the parallel loop ran the walks: at every
\* point of the merge the addPhoton calls made so far are those of the
\* slots visited so far that hold a photon, by ascending index.
C19_AddedInIndexOrder ==
  pc \in {"merging", "built"} => added = InIndexOrder(mergeIdx)

\* two walks deposited different photons, which were added: that of walk 0
\* first
C19_Witness ==
  /\ pc = "built"
  /\ nPhotons = 2
  /\ photons[0] # <<>> /\ photons[1] # <<>>
  /\ photons[0] # photons[1]
  /\ added = <<photons[0][1], photons[1][1]>>

====
